---- MODULE Spec2Model ----
(***************************************************************************)
(* Humanet dashboard (streamlit_app.py): the session container, the auth   *)
(* panel, the auth gate and the six tabs, as a state machine whose steps   *)
(* are script runs.  Streamlit executes the whole script top to bottom on  *)
(* every widget interaction; a button or form-submit call returns True     *)
(* only in the run its click started, and only if the script reaches the   *)
(* call.  st.stop() and st.experimental_rerun() end the run where they are *)
(* called; the latter starts a fresh run with no widget clicked.           *)
(*                                                                         *)
(* Text is a sequence of one-character strings, so that str.strip() is     *)
(* computed and not assumed.  An optional value (Python None or a value)   *)
(* is a set of at most one element.                                        *)
(*                                                                         *)
(* Environment: the backend answers every request with an HTTP response,   *)
(* either 2xx with the JSON shape of the endpoint or 4xx/5xx with a text   *)
(* body (redirects are followed inside requests and never reach the        *)
(* script).                                                                *)
(***************************************************************************)
EXTENDS Integers, Sequences, FiniteSets, TLC

VARIABLES
    session,    \* st.session_state: token, role, email, name, location, age, ngo_goals
    before,     \* st.session_state as it was when the last run began
    clicked,    \* the widget whose interaction started the last run
    form,       \* the values entered in that widget's form
    requests,   \* the HTTP exchanges of the last run, in the order issued
    messages,   \* st.success / st.error / st.info boxes of the last run, in order
    rendered,   \* the panels the last run rendered
    page,       \* the lists the last run rendered (survey cards, feed, topics, ...)
    how,        \* how the last run ended: "stop", "rerun" or "end"
    lastAuth    \* history: the user whose register/login last succeeded (0: nobody yet)

vars == <<session, before, clicked, form, requests, messages, rendered, page, how,
          lastAuth>>

\* ------------------------------------------------------------------ bounds
NumUsers == 2
MaxSurveys == 2
MaxTopics == 2

\* ------------------------------------------------------------------ text
None == {}
Some(v) == {v}
Val(o) == CHOOSE v \in o : TRUE

WS == {" ", "\t", "\n"}

RECURSIVE LStrip(_)
LStrip(t) == IF t # <<>> /\ Head(t) \in WS THEN LStrip(Tail(t)) ELSE t

RECURSIVE RStrip(_)
RStrip(t) ==
    IF t # <<>> /\ t[Len(t)] \in WS THEN RStrip(SubSeq(t, 1, Len(t) - 1)) ELSE t

\* str.strip()
Strip(t) == RStrip(LStrip(t))

\* Python truthiness of an optional string: None and "" are falsy
Truthy(o) == o # None /\ o # Some(<<>>)

\* `x or ""` on an optional string
OrEmpty(o) == IF Truthy(o) THEN Val(o) ELSE <<>>

\* ------------------------------------------------------------------ session
Fields == {"token", "role", "email", "name", "location", "age", "ngo_goals"}

\* Session init: every key starts as None
EmptySession ==
    [token |-> None, role |-> None, email |-> None, name |-> None,
     location |-> None, age |-> None, ngo_goals |-> None]

\* Logout button handler: the assignments made before the rerun
LogoutClear(s) ==
    [s EXCEPT !.token = None, !.role = None, !.email = None]

\* the payload of /auth/register built from the sign-up widgets
RegisterPayload(f) ==
    [email |-> Strip(f.email),
     password |-> f.password,
     role |-> f.role,
     name |-> Strip(f.name),
     age |-> IF f.role = "Individual" THEN Some(f.age) ELSE None,
     location |-> Strip(f.location),
     goals |-> IF f.role = "NGO" THEN Some(Strip(f.goals)) ELSE None]

\* a register that assigns age and ngo_goals only when the role has them
RegisterOk_KeepsOtherRole(s, f, data) ==
    [s EXCEPT !.token = Some(data.access_token),
              !.role = Some(f.role),
              !.email = Some(Strip(f.email)),
              !.name = Some(Strip(f.name)),
              !.location = Some(Strip(f.location)),
              !.age = IF f.role = "Individual" THEN Some(f.age) ELSE @,
              !.ngo_goals = IF f.role = "NGO" THEN Some(Strip(f.goals)) ELSE @]

\* a register that stores the age widget's value whatever the role
RegisterOk_AlwaysAge(s, f, data) ==
    [token |-> Some(data.access_token),
     role |-> Some(f.role),
     email |-> Some(Strip(f.email)),
     name |-> Some(Strip(f.name)),
     location |-> Some(Strip(f.location)),
     age |-> Some(f.age),
     ngo_goals |-> IF f.role = "NGO" THEN Some(Strip(f.goals)) ELSE None]

\* Create account handler after a 2xx answer `data`
RegisterOk(s, f, data) ==
    [token |-> Some(data.access_token),
     role |-> Some(f.role),
     email |-> Some(Strip(f.email)),
     name |-> Some(Strip(f.name)),
     location |-> Some(Strip(f.location)),
     age |-> IF f.role = "Individual" THEN Some(f.age) ELSE None,
     ngo_goals |-> IF f.role = "NGO" THEN Some(Strip(f.goals)) ELSE None]

\* the payload of /auth/login
LoginPayload(f) == [email |-> Strip(f.email), password |-> f.password]

\* a login that resets the role it cannot know
LoginOk_ResetsRole(s, f, data) ==
    [s EXCEPT !.token = Some(data.access_token), !.email = Some(Strip(f.email)),
              !.role = None]

\* Login handler after a 2xx answer `data`
LoginOk(s, f, data) ==
    [s EXCEPT !.token = Some(data.access_token), !.email = Some(Strip(f.email))]

\* a gate that tests `token is None` instead of `not token`
TokenMissing_IsNoneOnly(s) == s.token = None

\* `not st.session_state.token`: the condition of the auth gate and of require_auth
TokenMissing(s) == ~Truthy(s.token)

\* ------------------------------------------------------------------ gateway
GetTimeout == 30
PostTimeout == 60

\* r.raise_for_status(): HTTPError for 4xx and 5xx
RaisesHTTPError(resp) == resp.status >= 400 /\ resp.status < 600

\* the Authorization header api_get / api_post attach: only for a truthy token
AuthHeader(token) == IF Truthy(token) THEN token ELSE None

\* one api_get call and the backend's answer to it
ApiGet(path, params, token, resp) ==
    [method |-> "GET", path |-> path, payload |-> params,
     auth |-> AuthHeader(token), timeout |-> GetTimeout, resp |-> resp]

\* one api_post call and the backend's answer to it
ApiPost(path, payload, token, resp) ==
    [method |-> "POST", path |-> path, payload |-> payload,
     auth |-> AuthHeader(token), timeout |-> PostTimeout, resp |-> resp]

\* a message box: kind, the literal prefix, interpolated text, interpolated id
Msg(kind, prefix, text, arg) ==
    [kind |-> kind, prefix |-> prefix, text |-> text, arg |-> arg]

\* an error box that shows the body trimmed
ErrorMsg_Trimmed(prefix, resp) == Msg("error", prefix, Strip(resp.body), None)

\* st.error(f"<prefix>{e.response.text}")
ErrorMsg(prefix, resp) == Msg("error", prefix, resp.body, None)

\* ------------------------------------------------------------------ script run
\* The run context threaded through the script's sections.
EmptyPage ==
    [surveys |-> <<>>, feed |-> <<>>, tutorials |-> <<>>, opportunities |-> <<>>,
     topics |-> <<>>, summary |-> None, profile |-> None]

StartRun(s) ==
    [session |-> s, requests |-> <<>>, messages |-> <<>>, rendered |-> {},
     page |-> EmptyPage, how |-> "running"]

Send(c, ex) == [c EXCEPT !.requests = Append(@, ex)]
Show(c, m) == [c EXCEPT !.messages = Append(@, m)]
Render(c, panel) == [c EXCEPT !.rendered = @ \cup {panel}]

\* a handler without the except clause: the HTTPError ends the run
PostAction_Uncaught(c, path, payload, resp, ok, errPrefix) ==
    LET c1 == Send(c, ApiPost(path, payload, c.session.token, resp))
    IN  IF RaisesHTTPError(resp) THEN [c1 EXCEPT !.how = "crash"]
        ELSE Show(c1, ok)

\* a handler that sends the request again when it fails
PostAction_Retry(c, path, payload, resp, ok, errPrefix) ==
    LET c1 == Send(c, ApiPost(path, payload, c.session.token, resp))
    IN  IF RaisesHTTPError(resp)
        THEN Show(Send(c1, ApiPost(path, payload, c.session.token, resp)),
                  ErrorMsg(errPrefix, resp))
        ELSE Show(c1, ok)

\* try: out = api_post(path, payload, token); st.success(ok)
\* except requests.HTTPError as e: st.error(f"{errPrefix}{e.response.text}")
PostAction(c, path, payload, resp, ok, errPrefix) ==
    LET c1 == Send(c, ApiPost(path, payload, c.session.token, resp))
    IN  IF RaisesHTTPError(resp) THEN Show(c1, ErrorMsg(errPrefix, resp))
        ELSE Show(c1, ok)

\* header column 3: the Logout button exists only under a truthy token
Header(c, w) ==
    LET c1 == Render(c, "header")
    IN  IF Truthy(c1.session.token) /\ w = "Logout"
        THEN [c1 EXCEPT !.session = LogoutClear(@), !.how = "rerun"]
        ELSE c1

\* the "Sign up / Login" expander, rendered in every run that reaches it
AuthPanel(c, w, f, ra) ==
    IF c.how # "running" THEN c ELSE
    LET c1 == Render(c, "auth")
    IN  CASE w = "Create account" ->
               LET c2 == Send(c1, ApiPost("/auth/register", RegisterPayload(f), None, ra))
               IN  IF RaisesHTTPError(ra)
                   THEN Show(c2, ErrorMsg("Sign up failed: ", ra))
                   ELSE [Show(c2, Msg("success", "Account created & logged in.", <<>>, None))
                            EXCEPT !.session = RegisterOk(@, f, ra.body), !.how = "rerun"]
          [] w = "Login" ->
               LET c2 == Send(c1, ApiPost("/auth/login", LoginPayload(f), None, ra))
               IN  IF RaisesHTTPError(ra)
                   THEN Show(c2, ErrorMsg("Login failed: ", ra))
                   ELSE [Show(c2, Msg("success", "Logged in.", <<>>, None))
                            EXCEPT !.session = LoginOk(@, f, ra.body), !.how = "rerun"]
          [] OTHER -> c1

\* "If not logged in, stop here"
Gate(c) ==
    IF c.how # "running" THEN c ELSE
    IF TokenMissing(c.session) THEN [c EXCEPT !.how = "stop"] ELSE c

\* ------------------------------------------------------------------ tabs
\* str.splitlines(), up to the empty lines the caller filters out
RECURSIVE SplitLines(_)
SplitLines(t) ==
    IF t = <<>> THEN <<>>
    ELSE IF \E i \in 1..Len(t) : t[i] = "\n"
         THEN LET i == CHOOSE i \in 1..Len(t) :
                           t[i] = "\n" /\ \A j \in 1..(i - 1) : t[j] # "\n"
              IN  <<SubSeq(t, 1, i - 1)>> \o SplitLines(SubSeq(t, i + 1, Len(t)))
         ELSE <<t>>

\* [q.strip() for q in questions_blob.splitlines() if q.strip()]
Questions(blob) ==
    LET ls == SplitLines(blob)
    IN  SelectSeq([i \in 1..Len(ls) |-> Strip(ls[i])], LAMBDA q : q # <<>>)

\* f"/surveys/{s['id']}/respond"
RespondPath(id) == "/surveys/" \o ToString(id) \o "/respond"

\* one survey card with its answers form; `submitted` is what
\* st.form_submit_button returns in this run
SurveyCard(c, w, f, ra, sv) ==
    LET c1 == [c EXCEPT !.page.surveys = Append(@, sv)]
        submitted == w = "Submit Answers" /\ f.survey_id = sv.id
    IN  IF submitted
        THEN PostAction(c1, RespondPath(sv.id), [answers |-> f.answers], ra,
                        Msg("success", "Submitted. Thank you!", <<>>, None),
                        "Submit failed: ")
        ELSE c1

RECURSIVE SurveyLoop(_, _, _, _, _, _)
SurveyLoop(c, w, f, ra, res, i) ==
    IF i > Len(res) THEN c
    ELSE SurveyLoop(SurveyCard(c, w, f, ra, res[i]), w, f, ra, res, i + 1)

\* Surveys tab.  The answer forms live inside `if st.button("List surveys")`:
\* they are rendered, with submitted = False, only in the run that button
\* started; the run a form submission starts never reaches them.
SurveysTab(c, w, f, ra) ==
    IF c.how # "running" THEN c ELSE
    LET c1 == Render(c, "Surveys")
    IN  CASE w = "List surveys" ->
               LET c2 == Send(c1, ApiGet("/surveys/list", [location |-> f.my_loc],
                                         c1.session.token, ra))
               IN  IF RaisesHTTPError(ra)
                   THEN Show(c2, ErrorMsg("List failed: ", ra))
                   ELSE IF ra.body = <<>>
                        THEN Show(c2, Msg("info", "No surveys found for that location.",
                                          <<>>, None))
                        ELSE SurveyLoop(c2, w, f, ra, ra.body, 1)
          [] w = "Create Survey" ->
               PostAction(c1, "/surveys/create",
                          [title |-> Strip(f.title),
                           description |-> Strip(f.description),
                           sdg |-> f.sdg,
                           target_location |-> Strip(f.target_location),
                           questions |-> Questions(f.questions_blob)],
                          ra,
                          Msg("success", "Survey created. ID: ", <<>>,
                              IF RaisesHTTPError(ra) THEN None ELSE Some(ra.body.survey_id)),
                          "Create failed: ")
          [] OTHER -> c1

\* Civic Reports tab
CivicTab(c, w, f, ra) ==
    IF c.how # "running" THEN c ELSE
    LET c1 == Render(c, "Civic Reports")
    IN  CASE w = "Submit" ->
               PostAction(c1, "/civic/report",
                          [category |-> f.category,
                           title |-> Strip(f.title),
                           content |-> Strip(f.content),
                           location |-> Strip(f.location)],
                          ra,
                          IF RaisesHTTPError(ra) THEN Msg("success", "", <<>>, None)
                          ELSE Msg("success",
                                   IF ra.body.verified
                                   THEN "Report stored. Verified human"
                                   ELSE "Report stored. Needs review",
                                   <<>>, Some(ra.body.id)),
                          "Submit failed: ")
          [] w = "Load feed" ->
               LET c2 == Send(c1, ApiGet("/civic/feed",
                                         [location |-> f.f_loc, category |-> f.f_cat],
                                         c1.session.token, ra))
               IN  IF RaisesHTTPError(ra)
                   THEN Show(c2, ErrorMsg("Load failed: ", ra))
                   ELSE [(IF ra.body = <<>>
                          THEN Show(c2, Msg("info", "No recent reports.", <<>>, None))
                          ELSE c2)
                            EXCEPT !.page.feed = ra.body]
          [] OTHER -> c1

\* SkillUp tab
SkillUpTab(c, w, f, ra) ==
    IF c.how # "running" THEN c ELSE
    LET c1 == Render(c, "SkillUp")
    IN  CASE w = "Publish Tutorial" ->
               PostAction(c1, "/skillup/tutorials/create",
                          [title |-> Strip(f.title),
                           content |-> Strip(f.content),
                           sdg_tags |-> Strip(f.tags),
                           location |-> Strip(f.location)],
                          ra,
                          Msg("success", "Tutorial created. ID: ", <<>>,
                              IF RaisesHTTPError(ra) THEN None
                              ELSE Some(ra.body.tutorial_id)),
                          "Create failed: ")
          [] w = "Load tutorials" ->
               LET c2 == Send(c1, ApiGet("/skillup/tutorials",
                                         [tag |-> f.ft_tag, location |-> f.ft_loc],
                                         c1.session.token, ra))
               IN  IF RaisesHTTPError(ra)
                   THEN Show(c2, ErrorMsg("Load failed: ", ra))
                   ELSE [(IF ra.body = <<>>
                          THEN Show(c2, Msg("info", "No tutorials found.", <<>>, None))
                          ELSE c2)
                            EXCEPT !.page.tutorials = ra.body]
          [] w = "Create Opportunity" ->
               PostAction(c1, "/skillup/opportunities/create",
                          [title |-> Strip(f.title),
                           details |-> Strip(f.details),
                           location |-> Strip(f.location),
                           sdg_tags |-> Strip(f.tags)],
                          ra,
                          Msg("success", "Opportunity created. ID: ", <<>>,
                              IF RaisesHTTPError(ra) THEN None
                              ELSE Some(ra.body.opportunity_id)),
                          "Create failed: ")
          [] w = "Load opportunities" ->
               LET c2 == Send(c1, ApiGet("/skillup/opportunities",
                                         [location |-> f.fo_loc],
                                         c1.session.token, ra))
               IN  IF RaisesHTTPError(ra)
                   THEN Show(c2, ErrorMsg("Load failed: ", ra))
                   ELSE [(IF ra.body = <<>>
                          THEN Show(c2, Msg("info", "No opportunities found.", <<>>, None))
                          ELSE c2)
                            EXCEPT !.page.opportunities = ra.body]
          [] OTHER -> c1

\* the comment form of the topic at position i, inside the loop over topics
CommentForm(c, w, f, ra, t) ==
    IF w = "Post Comment" /\ f.topic_id = t.id
    THEN PostAction(c, "/discussions/comment",
                    [topic_id |-> t.id, body |-> Strip(f.body)],
                    ra,
                    Msg("success", "Comment added. ID: ", <<>>,
                        IF RaisesHTTPError(ra) THEN None ELSE Some(ra.body.comment_id)),
                    "Comment failed: ")
    ELSE c

RECURSIVE TopicLoop(_, _, _, _, _, _)
TopicLoop(c, w, f, ra, topics, i) ==
    IF i > Len(topics) THEN c
    ELSE TopicLoop(CommentForm([c EXCEPT !.page.topics = Append(@, topics[i])],
                               w, f, ra, topics[i]),
                   w, f, ra, topics, i + 1)

\* the new-topic form and its handler
NewTopic(c, w, f, ra) ==
    IF w = "Post Topic"
    THEN PostAction(c, "/discussions/new",
                    [title |-> Strip(f.title), content |-> Strip(f.content)],
                    ra,
                    Msg("success", "Topic created with ID: ", <<>>,
                        IF RaisesHTTPError(ra) THEN None ELSE Some(ra.body.topic_id)),
                    "Topic creation failed: ")
    ELSE c

\* "Fetch & display topics": issued in every run that reaches the tab
FetchTopics(c, w, f, ra, rl) ==
    LET c1 == Send(c, ApiPost("/discussions/list", <<>>, c.session.token, rl))
    IN  IF RaisesHTTPError(rl)
        THEN Show(c1, ErrorMsg("Failed to load discussions: ", rl))
        ELSE TopicLoop(c1, w, f, ra, rl.body.topics, 1)

\* a tab that fetches the topics before it handles the new-topic form
DiscussionsTab_ListFirst(c, w, f, ra, rl) ==
    IF c.how # "running" THEN c ELSE
    Val({NewTopic(c1, w, f, ra) :
            c1 \in {FetchTopics(Render(c, "Discussions"), w, f, ra, rl)}})

\* Discussions tab
DiscussionsTab(c, w, f, ra, rl) ==
    IF c.how # "running" THEN c ELSE
    Val({FetchTopics(c1, w, f, ra, rl) :
            c1 \in {NewTopic(Render(c, "Discussions"), w, f, ra)}})

\* NGO AI Report tab
AIReportTab(c, w, f, ra) ==
    IF c.how # "running" THEN c ELSE
    LET c1 == Render(c, "NGO AI Report")
    IN  IF w = "Generate Report"
        THEN LET c2 == PostAction(c1, "/reports/ai-summary",
                                  [survey_id |-> f.survey_id,
                                   region |-> IF f.region = <<>> THEN None
                                              ELSE Some(f.region)],
                                  ra,
                                  Msg("success", "Responses analyzed: ", <<>>,
                                      IF RaisesHTTPError(ra) THEN None
                                      ELSE Some(ra.body.count)),
                                  "Report failed: ")
             IN  IF RaisesHTTPError(ra) THEN c2
                 ELSE [c2 EXCEPT !.page.summary = Some(ra.body.summary)]
        ELSE c1

\* Profile tab: the lines written from the session (None shows as a dash)
ProfileTab(c) ==
    IF c.how # "running" THEN c ELSE
    LET s == c.session
        shown(o) == IF Truthy(o) THEN o ELSE None
    IN  [Render(c, "Profile") EXCEPT !.page.profile = Some(
            [email |-> OrEmpty(s.email),
             role |-> s.role,
             name |-> shown(s.name),
             location |-> shown(s.location),
             lines |-> {"Email", "Role", "Name", "Location"}
                         \cup (IF s.role = Some("Individual") THEN {"Age"} ELSE {})
                         \cup (IF s.role = Some("NGO") THEN {"NGO Goals"} ELSE {}),
             age |-> IF s.role = Some("Individual") /\ s.age # Some(0)
                     THEN s.age ELSE None,
             ngo_goals |-> IF s.role = Some("NGO") THEN shown(s.ngo_goals) ELSE None])]

\* One run of the script: session `s`, clicked widget `w` with form values `f`,
\* the backend's answer `ra` to the widget's own request and `rl` to
\* /discussions/list.
\* Each section works on the context the previous one left; the sets of one
\* context below only fix that value before the next section reads it.
Script(s, w, f, ra, rl) ==
    LET r1 == {Header(c, w) : c \in {StartRun(s)}}
        r2 == {AuthPanel(c, w, f, ra) : c \in r1}
        r3 == {Gate(c) : c \in r2}
        r4 == {SurveysTab(c, w, f, ra) : c \in r3}
        r5 == {CivicTab(c, w, f, ra) : c \in r4}
        r6 == {SkillUpTab(c, w, f, ra) : c \in r5}
        r7 == {DiscussionsTab(c, w, f, ra, rl) : c \in r6}
        r8 == {AIReportTab(c, w, f, ra) : c \in r7}
        r9 == {ProfileTab(c) : c \in r8}
    IN  Val({IF c.how = "running" THEN [c EXCEPT !.how = "end"] ELSE c : c \in r9})

\* ------------------------------------------------------------------ inputs
Users == 1..NumUsers
Letters == <<"a", "b", "c", "d", "e", "f">>
Views == {"Surveys", "Civic Reports", "SkillUp", "Discussions", "NGO AI Report", "Profile"}

\* default of the age number_input
AgeDefault == 25

\* "Account type" selectbox
RoleOf(u) == IF u % 2 = 1 THEN "Individual" ELSE "NGO"

\* what user u types into the sign-up widgets; the goals text_area exists only
\* for role NGO and the variable is "" otherwise
SignUpForm(u) ==
    [role |-> RoleOf(u),
     name |-> <<" ", Letters[u], " ">>,
     email |-> <<Letters[u], "@", "\n">>,
     password |-> <<Letters[u], " ">>,
     location |-> <<" ", Letters[u], " ", "k">>,
     age |-> AgeDefault + u,
     goals |-> IF RoleOf(u) = "NGO" THEN <<Letters[u], "!", " ">> ELSE <<>>]

\* what user u types into the login widgets
LoginForm(u) == [email |-> <<" ", Letters[u], "@">>, password |-> <<Letters[u], " ">>]

\* the access tokens the backend may issue to user u (opaque text)
AccessTokens(u) == {<<"t", Letters[u], " ">>, <<>>}

\* the error answers: a 4xx with a text body; for /discussions/list a 5xx
Errors == {[status |-> 400, body |-> <<" ", "b", "a", "d">>]}
ListErrors == {[status |-> 503, body |-> <<"d", "o", "w", "n", "\n">>]}

Ok(body) == [status |-> 200, body |-> body]
NoResp == [status |-> 0, body |-> <<>>]
NoForm == <<>>

AuthAnswers(u) == {Ok([access_token |-> t]) : t \in AccessTokens(u)} \cup Errors

\* the lists the backend may return: the first k items of its catalogue
Prefixes(n) == {[i \in 1..k |-> i] : k \in 0..n}

Survey(i) ==
    [id |-> i, title |-> <<"S", Letters[i]>>, sdg |-> 4, target_location |-> <<"U">>,
     questions |-> [j \in 1..(i + 1) |-> <<"q", Letters[j]>>]]

Topic(i) ==
    [id |-> i, title |-> <<"T", Letters[i]>>, content |-> <<"c", " ">>,
     author |-> <<Letters[i], "@">>, created_at |-> <<"d", Letters[i]>>]

SurveyAnswers ==
    {Ok([i \in 1..Len(q) |-> Survey(q[i])]) : q \in Prefixes(MaxSurveys)} \cup Errors

TopicAnswers ==
    {Ok([topics |-> [i \in 1..Len(q) |-> Topic(q[i])]]) : q \in Prefixes(MaxTopics)}
        \cup ListErrors

\* the backend answers /discussions/list only in the runs that ask: an auth
\* submission reaches the Discussions tab only if it fails under a truthy token
ListAnswersAfterAuth(s, ra) ==
    IF ~TokenMissing(s) /\ RaisesHTTPError(ra) THEN TopicAnswers ELSE {NoResp}

\* ... and a run without a click reaches it only past the gate
ListAnswersAtGate(s) == IF TokenMissing(s) THEN {NoResp} ELSE TopicAnswers

IdAnswers(field) == {Ok([x \in {field} |-> 7])} \cup Errors

ReportAnswers == {Ok([id |-> 7, verified |-> v]) : v \in BOOLEAN} \cup Errors

FeedItem ==
    [title |-> <<"r">>, category |-> "crime", location |-> <<"k">>,
     created_at |-> <<"d">>, verified |-> TRUE, sdg_tags |-> <<>>]

ItemAnswers == {Ok(<<>>), Ok(<<FeedItem>>)} \cup Errors

SummaryAnswers == {Ok([count |-> 3, summary |-> <<"s">>])} \cup Errors

\* what a user may type into the n answer boxes of a survey card
AnswerMaps(n) ==
    {[j \in 0..(n - 1) |-> <<>>],
     [j \in 0..(n - 1) |-> IF j = 0 THEN <<"y", "e", "s">> ELSE <<"n", "o", " ">>]}

\* ------------------------------------------------------------------ steps
\* One script run and what it leaves behind.
Apply(w, f, ra, rl, u) ==
    \E c \in {Script(session, w, f, ra, rl)} :
        /\ session' = c.session
        /\ before' = session
        /\ clicked' = w
        /\ form' = f
        /\ requests' = c.requests
        /\ messages' = c.messages
        /\ rendered' = c.rendered
        /\ page' = c.page
        /\ how' = c.how
        /\ lastAuth' = IF w \in {"Create account", "Login"} /\ ~RaisesHTTPError(ra)
                       THEN u ELSE lastAuth

\* a user can act once the run has ended without asking for a rerun
Idle == how # "rerun"

Logout ==
    /\ Idle /\ Truthy(session.token)
    /\ Apply("Logout", NoForm, NoResp, NoResp, 0)

Register ==
    /\ Idle /\ "auth" \in rendered
    /\ \E u \in Users : \E ra \in AuthAnswers(u) :
          \E rl \in ListAnswersAfterAuth(session, ra) :
             Apply("Create account", SignUpForm(u), ra, rl, u)

Login ==
    /\ Idle /\ "auth" \in rendered
    /\ \E u \in Users : \E ra \in AuthAnswers(u) :
          \E rl \in ListAnswersAfterAuth(session, ra) :
             Apply("Login", LoginForm(u), ra, rl, u)

\* the run st.experimental_rerun() asked for
Rerun ==
    /\ how = "rerun"
    /\ \E rl \in ListAnswersAtGate(session) :
          Apply("rerun", NoForm, NoResp, rl, 0)

\* a run started by a widget that is no button (the radio, a text field)
WidgetChange ==
    /\ Idle
    /\ \E rl \in ListAnswersAtGate(session) :
          Apply("edit", NoForm, NoResp, rl, 0)

ListSurveys ==
    /\ Idle /\ "Surveys" \in rendered
    /\ \E ra \in SurveyAnswers, rl \in TopicAnswers :
          Apply("List surveys", [my_loc |-> OrEmpty(session.location)], ra, rl, 0)

\* submitting the answers form of a survey card that is on the page
SubmitAnswers ==
    /\ Idle
    /\ \E i \in 1..Len(page.surveys), rl \in TopicAnswers :
          LET sv == page.surveys[i]
          IN  \E answers \in AnswerMaps(Len(sv.questions)) :
                 Apply("Submit Answers", [survey_id |-> sv.id, answers |-> answers],
                       NoResp, rl, 0)

CreateSurvey ==
    /\ Idle /\ "Surveys" \in rendered
    /\ \E ra \in IdAnswers("survey_id"), rl \in TopicAnswers :
          Apply("Create Survey",
                [title |-> <<" ", "s">>, description |-> <<"d", " ">>, sdg |-> 4,
                 target_location |-> <<"U">>,
                 questions_blob |-> <<"q", "\n", " ", "\n", "r", " ">>],
                ra, rl, 0)

SubmitReport ==
    /\ Idle /\ "Civic Reports" \in rendered
    /\ \E ra \in ReportAnswers, rl \in TopicAnswers :
          Apply("Submit",
                [category |-> "disaster", title |-> <<" ", "r">>, content |-> <<"x">>,
                 location |-> OrEmpty(session.location)],
                ra, rl, 0)

LoadFeed ==
    /\ Idle /\ "Civic Reports" \in rendered
    /\ \E ra \in ItemAnswers, rl \in TopicAnswers :
          Apply("Load feed", [f_loc |-> OrEmpty(session.location), f_cat |-> ""],
                ra, rl, 0)

PublishTutorial ==
    /\ Idle /\ "SkillUp" \in rendered
    /\ \E ra \in IdAnswers("tutorial_id"), rl \in TopicAnswers :
          Apply("Publish Tutorial",
                [title |-> <<"t", " ">>, content |-> <<"x">>, tags |-> <<" ", "4">>,
                 location |-> OrEmpty(session.location)],
                ra, rl, 0)

LoadTutorials ==
    /\ Idle /\ "SkillUp" \in rendered
    /\ \E ra \in ItemAnswers, rl \in TopicAnswers :
          Apply("Load tutorials",
                [ft_tag |-> <<>>, ft_loc |-> OrEmpty(session.location)], ra, rl, 0)

CreateOpportunity ==
    /\ Idle /\ "SkillUp" \in rendered
    /\ \E ra \in IdAnswers("opportunity_id"), rl \in TopicAnswers :
          Apply("Create Opportunity",
                [title |-> <<"o", " ">>, details |-> <<"x">>, tags |-> <<"4">>,
                 location |-> OrEmpty(session.location)],
                ra, rl, 0)

LoadOpportunities ==
    /\ Idle /\ "SkillUp" \in rendered
    /\ \E ra \in ItemAnswers, rl \in TopicAnswers :
          Apply("Load opportunities", [fo_loc |-> OrEmpty(session.location)], ra, rl, 0)

PostTopic ==
    /\ Idle /\ "Discussions" \in rendered
    /\ \E ra \in IdAnswers("topic_id"), rl \in TopicAnswers :
          Apply("Post Topic", [title |-> <<" ", "T", "b", " ">>, content |-> <<"x", " ">>],
                ra, rl, 0)

\* submitting the comment form of a topic that is on the page
PostComment ==
    /\ Idle
    /\ \E i \in 1..Len(page.topics), ra \in IdAnswers("comment_id"), rl \in TopicAnswers :
          Apply("Post Comment", [topic_id |-> page.topics[i].id, body |-> <<" ", "k">>],
                ra, rl, 0)

GenerateReport ==
    /\ Idle /\ "NGO AI Report" \in rendered
    /\ \E ra \in SummaryAnswers, rl \in TopicAnswers, region \in {<<>>, <<"E", " ">>} :
          Apply("Generate Report", [survey_id |-> 1, region |-> region], ra, rl, 0)

\* the first run of the script in a fresh browser session
Init ==
    \E c \in {Script(EmptySession, "edit", NoForm, NoResp, NoResp)} :
        /\ session = c.session
        /\ before = EmptySession
        /\ clicked = "edit"
        /\ form = NoForm
        /\ requests = c.requests
        /\ messages = c.messages
        /\ rendered = c.rendered
        /\ page = c.page
        /\ how = c.how
        /\ lastAuth = 0

Next ==
    \/ Logout \/ Register \/ Login \/ Rerun \/ WidgetChange
    \/ ListSurveys \/ SubmitAnswers \/ CreateSurvey
    \/ SubmitReport \/ LoadFeed
    \/ PublishTutorial \/ LoadTutorials \/ CreateOpportunity \/ LoadOpportunities
    \/ PostTopic \/ PostComment \/ GenerateReport

Spec == Init /\ [][Next]_vars

\* ------------------------------------------------------------------ properties
AuthPaths == {"/auth/register", "/auth/login"}

Is2xx(resp) == resp.status \in 200..299

\* the token is absent: None or the empty string
TokenAbsent(s) == s.token \in {None, Some(<<>>)}

\* t is raw without its leading and trailing whitespace
IsTrimOf(t, raw) ==
    /\ t = <<>> \/ (t[1] \notin WS /\ t[Len(t)] \notin WS)
    /\ \E i \in 0..Len(raw) :
          /\ i + Len(t) <= Len(raw)
          /\ t = SubSeq(raw, i + 1, i + Len(t))
          /\ \A k \in 1..Len(raw) : (k <= i \/ k > i + Len(t)) => raw[k] \in WS

\* the session values that are user u's
Owns(u, field, o) ==
    CASE field = "token" -> \E t \in AccessTokens(u) : o = Some(t)
      [] field = "role" -> o = Some(RoleOf(u))
      [] field = "email" -> o = Some(<<Letters[u], "@">>)
      [] field = "name" -> o = Some(<<Letters[u]>>)
      [] field = "location" -> o = Some(<<Letters[u], " ", "k">>)
      [] field = "age" -> o = Some(AgeDefault + u)
      [] field = "ngo_goals" -> o = Some(<<Letters[u], "!">>)

\* C1: in the state right after a Logout, all seven session fields (token,
\* role, email, name, location, age, ngo_goals) are None.
C1_LogoutClearsAllFields ==
    clicked = "Logout" => \A fld \in Fields : session[fld] = None

\* C2: every session field that is not None belongs to one user, the one whose
\* register or login most recently succeeded.
C2_NoPartialMigration ==
    lastAuth # 0 =>
        \A fld \in Fields : session[fld] # None => Owns(lastAuth, fld, session[fld])

\* C3: a run in which the token is absent (None or "") renders none of the six
\* views, issues no request other than /auth/register and /auth/login, and
\* ends at the gate after the auth panel (or in the rerun an auth success or a
\* logout asked for).
C3_NoViewWithoutToken ==
    (TokenAbsent(before) \/ TokenAbsent(session)) =>
        /\ rendered \cap Views = {}
        /\ \A i \in 1..Len(requests) : requests[i].path \in AuthPaths
        /\ how \in {"stop", "rerun"}
        /\ how = "stop" => "auth" \in rendered

\* C3 witness: the rerun after a login that returned an empty token stops at the gate
C3_Witness ==
    /\ clicked = "rerun"
    /\ session.token = Some(<<>>)
    /\ how = "stop"
    /\ rendered = {"header", "auth"}

\* the last run was a click on `button` whose request got the answer it records
Submitted(button) == clicked = button /\ Len(requests) >= 1

\* the error boxes of the last run, and the failed exchanges, in order
ErrorTexts ==
    LET errs == SelectSeq(messages, LAMBDA m : m.kind = "error")
    IN  [i \in 1..Len(errs) |-> errs[i].text]

FailedBodies ==
    LET bad == SelectSeq(requests, LAMBDA r : ~Is2xx(r.resp))
    IN  [i \in 1..Len(bad) |-> bad[i].resp.body]

\* C4: after a register answered 2xx, token is the answer's access_token
\* unchanged; role, email, name and location are the submitted values (text
\* trimmed); age is the submitted age for an Individual and None otherwise;
\* ngo_goals is the submitted goals for an NGO and None otherwise, whatever the
\* session held before.
C4_RegisterSetsAllFields ==
    (Submitted("Create account") /\ Is2xx(requests[1].resp)) =>
        /\ requests[1].path = "/auth/register"
        /\ session.token = Some(requests[1].resp.body.access_token)
        /\ session.role = Some(form.role)
        /\ \E t \in session.email : IsTrimOf(t, form.email)
        /\ \E t \in session.name : IsTrimOf(t, form.name)
        /\ \E t \in session.location : IsTrimOf(t, form.location)
        /\ session.age = IF form.role = "Individual" THEN Some(form.age) ELSE None
        /\ IF form.role = "NGO"
           THEN \E t \in session.ngo_goals : IsTrimOf(t, form.goals)
           ELSE session.ngo_goals = None

\* C4 witness: an NGO registers over a session that held an Individual's fields
C4_Witness ==
    /\ Submitted("Create account") /\ Is2xx(requests[1].resp)
    /\ before.role = Some("Individual") /\ before.age # None /\ Truthy(before.token)
    /\ session.role = Some("NGO") /\ session.age = None /\ Truthy(session.ngo_goals)
    /\ Truthy(session.token) /\ session.name # before.name

\* C5: after a login answered 2xx, token is the answer's access_token unchanged
\* and email is the submitted email trimmed; role, name, location, age and
\* ngo_goals are what they were before the login.
C5_LoginKeepsProfile ==
    (Submitted("Login") /\ Is2xx(requests[1].resp)) =>
        /\ requests[1].path = "/auth/login"
        /\ session.token = Some(requests[1].resp.body.access_token)
        /\ \E t \in session.email : IsTrimOf(t, form.email)
        /\ \A fld \in Fields \ {"token", "email"} : session[fld] = before[fld]

\* C5 witness: a login over a session that holds another user's profile
C5_Witness ==
    /\ Submitted("Login") /\ Is2xx(requests[1].resp)
    /\ before.role # None /\ before.name # None /\ before.age # None
    /\ Truthy(before.email) /\ session.email # before.email
    /\ Truthy(session.token) /\ session.token # before.token

C7_SubmitAnswersPostsOnce ==
    [][clicked' = "Submit Answers" =>
          LET posts == {i \in 1..Len(requests') :
                           requests'[i].path = RespondPath(form'.survey_id)}
          IN  /\ Cardinality(posts) = 1
              /\ \A i \in posts :
                    /\ requests'[i].method = "POST"
                    /\ requests'[i].payload = [answers |-> form'.answers]
                    /\ Is2xx(requests'[i].resp) =>
                          /\ \E k \in 1..Len(messages') : messages'[k].kind = "success"
                          /\ page'.surveys = page.surveys]_vars

\* C8: when a new topic is posted successfully, /discussions/list is requested
\* after /discussions/new in the same run (and not before it), and the topics
\* shown are exactly those of the list answer, with title, content, author and
\* created_at as answered; nothing is shown from the entered title and content.
C8_TopicsFromListAnswer ==
    (Submitted("Post Topic") /\ Is2xx(requests[1].resp)) =>
        /\ requests[1].path = "/discussions/new"
        /\ Len(requests) = 2
        /\ requests[2].path = "/discussions/list"
        /\ page.topics = IF Is2xx(requests[2].resp) THEN requests[2].resp.body.topics
                         ELSE <<>>

\* C8 witness: the post succeeded and the list answer, which is shown, does not
\* hold the title just entered
C8_Witness ==
    /\ Submitted("Post Topic") /\ Is2xx(requests[1].resp)
    /\ Len(requests) = 2 /\ Is2xx(requests[2].resp)
    /\ page.topics # <<>>
    /\ \A i \in 1..Len(page.topics) : page.topics[i].title # Strip(form.title)

C10_AtMostOneRequest ==
    Truthy(before.token) => Len(requests) <= 1

\* C10, amended: a run issues at most two requests, one after the other: at
\* most one for the clicked widget and at most one to /discussions/list, which
\* every run that renders the Discussions tab issues; no request is sent twice
\* in a run, so a failed request is not re-sent.
C10_AtMostOnePlusList ==
    LET lists == {i \in 1..Len(requests) : requests[i].path = "/discussions/list"}
    IN  /\ Len(requests) <= 2
        /\ Cardinality(lists) <= 1
        /\ Len(requests) - Cardinality(lists) <= 1
        /\ ("Discussions" \in rendered) <=> (Cardinality(lists) = 1)
        /\ \A i \in 1..Len(requests), j \in 1..Len(requests) :
              i # j => requests[i].path # requests[j].path

\* C10 witness: a topic post that failed, followed by the list request
C10_Witness ==
    /\ clicked = "Post Topic"
    /\ Len(requests) = 2
    /\ requests[1].path = "/discussions/new" /\ ~Is2xx(requests[1].resp)
    /\ requests[2].path = "/discussions/list"

\* C11: in every reachable session state the role-specific fields agree with
\* the role: role = Individual implies ngo_goals is None, role = NGO implies
\* age is None, and age and ngo_goals are never both set.
C11_RoleFieldsConsistent ==
    /\ session.role = Some("Individual") => session.ngo_goals = None
    /\ session.role = Some("NGO") => session.age = None
    /\ ~(session.age # None /\ session.ngo_goals # None)

\* C11 witness: an Individual's login succeeded over a session that still holds
\* an NGO's registration
C11_Witness ==
    /\ Submitted("Login") /\ Is2xx(requests[1].resp)
    /\ lastAuth \in Users /\ RoleOf(lastAuth) = "Individual"
    /\ session.role = Some("NGO")
    /\ session.ngo_goals # None /\ session.age = None
    /\ Truthy(session.token)

====
